---- MODULE Spec2Model ----
(***************************************************************************)
(* Policy managers of maro.rl.training.policy_manager: the coordinator     *)
(* that routes experience batches to policies (LocalPolicyManager), to     *)
(* trainer processes over pipes (MultiProcessPolicyManager) or to remote   *)
(* trainer nodes over a proxy (MultiNodePolicyManager), merges the         *)
(* returned policy states and keeps the `updated` set and the version.     *)
(*                                                                         *)
(* A policy's state is a number; a policy that reports a change moves to   *)
(* the next number. An ExperienceSet is opaque, so a batch is the set of   *)
(* its keys.                                                               *)
(***************************************************************************)
EXTENDS Integers, Sequences, FiniteSets, TLC

\* ---------------------------------------------------------------- bounds
\* Largest policy state: a policy changes at most MaxState times.
MaxState == 1
\* on_experiences is not called any more once version has reached MaxVersion.
MaxVersion == 2
\* on_experiences is not called while a trainer's pipe holds MaxQueue unread
\* commands and replies.
MaxQueue == 2

\* ------------------------------------------------------------ the inputs
\* The managed policies, in the order of the `policies` list (and so of the
\* keys of policy_dict and of the policy2trainer dictionary of the examples).
PolicyOrder == <<"A", "B", "C">>
Policies == {PolicyOrder[i] : i \in 1..Len(PolicyOrder)}
Trainers == {"T1", "T2"}
Kinds == {"local", "multi_process", "multi_node"}

\* The policy2trainer tables handed to the constructor.
Assignments ==
    { [p \in Policies |-> IF p = "C" THEN "T2" ELSE "T1"],
      [p \in Policies |-> "T1"] }

\* A key of a batch that names no managed policy, and the batches that hold it.
Unmanaged == {"Z"}
KeyBatches == {b \in SUBSET (Policies \cup Unmanaged) : b \cap Unmanaged # {}}

\* The order of the keys of the policy2trainer dictionaries: "Y" and "Z" name no
\* managed policy.
TableOrder == <<"Y", "A", "B", "C", "Z">>

\* The policy2trainer tables a constructor can be handed: one that assigns every
\* policy, two that also hold an unmanaged policy id (in the list of the last and
\* of the first trainer), and one that leaves policy "C" out.
Tables ==
    { [p \in Policies |-> IF p = "C" THEN "T2" ELSE "T1"],
      [p \in Policies \cup {"Z"} |-> IF p \in {"C", "Z"} THEN "T2" ELSE "T1"],
      [p \in Policies \cup {"Y"} |-> IF p = "C" THEN "T2" ELSE "T1"],
      [p \in {"A", "B"} |-> IF p = "B" THEN "T2" ELSE "T1"] }

\* The states the policies of the `policies` list are in when it is handed over:
\* they need not be the same for all.
InitialStates == { [p \in Policies |-> IF p = "A" THEN 1 ELSE 0] }

\* The lists a constructor can be handed hold only trainable policies, or "B" is
\* no AbsCorePolicy.
NonTrainables == {{}, {"B"}}

\* The state of a policy a trainer has not created yet.
NoState == -1

VARIABLES
    kind,             \* which manager class was constructed
    policy_dict,      \* self.policy_dict: name -> the policy's state
    updated,          \* self.updated
    version,          \* self._version
    policy2trainer,   \* self.policy2trainer
    trainer2policies, \* self._trainer2policies: trainer id -> list of names
    manager_end,      \* keys of self._manager_end / the proxy's peers, in order
    exited,           \* exit() was called
    pc,               \* where the coordinator is: "idle", "recv", "scatter"
    waiting,          \* trainers whose reply the running call still waits for
    inbox,            \* trainer id -> commands sent to it and not yet read
    outbox,           \* trainer id -> replies it sent and the manager has not read
    replica,          \* the trainers' copies of the policies: name -> state
    running,          \* trainer id -> its loop is running
    op,               \* the manager operation called last
    result,           \* how it ended: "ok", "KeyError", or "pending"
    pre,              \* version, updated and policy states when it was called
    reported,         \* policies that reported a change to this on_experiences
    sentTo,           \* trainers this on_experiences sent a TRAIN command to
    gotFrom,          \* trainers whose reply this on_experiences has read
    ret,              \* what get_state returned
    batch,            \* the keys of the exp_by_policy of that on_experiences
    touched,          \* names added to updated since the last reset (or construction)
    resetCalled,      \* reset_update_status has been called
    nontrainable,     \* the policies of the `policies` list that are no AbsCorePolicy
    proxy,            \* self._proxy: "none", "open" or "closed"
    inits,            \* trainer id -> the initial policy states it was handed, in order
    replied           \* policy -> state, from the replies this on_experiences has read

vars == <<kind, policy_dict, updated, version, policy2trainer, trainer2policies,
          manager_end, exited, pc, waiting, inbox, outbox, replica, running,
          op, result, pre, reported, sentTo, gotFrom, ret, batch, touched,
          resetCalled, nontrainable, proxy, inits, replied>>

config == <<kind, policy2trainer, trainer2policies, manager_end>>
manager == <<policy_dict, updated, version>>
channels == <<inbox, outbox>>
trainers == <<replica, running>>
callframe == <<pc, waiting>>
history == <<touched, resetCalled>>
setup == <<nontrainable, proxy, inits>>

\* ------------------------------------------------------------- helpers
Range(s) == {s[i] : i \in 1..Len(s)}

EmptyMap == [p \in {} |-> 0]

\* The record of what the replies read so far carried: a later reply overrides.
Recorded(old, reply) ==
    [p \in DOMAIN old \cup DOMAIN reply |-> IF p \in DOMAIN reply THEN reply[p] ELSE old[p]]

\* The snapshot a call starts from.
Snapshot == [version |-> version, updated |-> updated, state |-> policy_dict]
NoSnapshot == [version |-> 0, updated |-> {}, state |-> [p \in Policies |-> 0]]

\* for policy_name, trainer_id in policy2trainer.items():
\*     self._trainer2policies[trainer_id].append(policy_name)
PoliciesOf(p2t, t) ==
    SelectSeq(TableOrder, LAMBDA p : p \in DOMAIN p2t /\ p2t[p] = t)

\* policy2trainer.items(): the keys of the table, in order.
TableKeys(p2t) == SelectSeq(TableOrder, LAMBDA p : p \in DOMAIN p2t)

\* The keys of the defaultdict, in the order they were first inserted.
RECURSIVE TrainerKeys(_, _, _)
TrainerKeys(p2t, names, acc) ==
    IF names = <<>> THEN acc
    ELSE LET t == p2t[Head(names)] IN
         TrainerKeys(p2t, Tail(names),
                     IF t \in Range(acc) THEN acc ELSE Append(acc, t))

\* self.updated = set(self.policy_dict.keys())
InitUpdated(names) == names

\* Mutant: a trainer is handed the state of every managed policy.
AllPolicyStates(names, state) == state

\* {name: self.policy_dict[name].get_state() for name in policy_names}
InitialPolicyStates(names, state) == [p \in Range(names) |-> state[p]]

\* AbsCorePolicy.on_experiences(exp) -> bool: the policies of ch report a change.
Learn(state, ch) == [p \in DOMAIN state |-> IF p \in ch THEN state[p] + 1 ELSE state[p]]
MayChange(state, names) == {p \in names : state[p] < MaxState}


\* ---------------------------------------------------- the trainer protocol
\* {"type": "train", "experiences": {...}} and {"type": "quit"}; `fresh` tells
\* the commands of the running call from those an earlier call left behind.
Train(names, isFresh) == [type |-> "train", experiences |-> names, fresh |-> isFresh]
Quit == [type |-> "quit", experiences |-> {}, fresh |-> FALSE]
\* SessionMessage(MsgTag.INIT_POLICY_STATE, ..., body={MsgKey.POLICY_STATE: states})
InitPolicyState(states) == [type |-> "init", policy_state |-> states, fresh |-> FALSE]

\* What is in the channels when a call starts was left by an earlier call.
RECURSIVE StaleSeq(_)
StaleSeq(msgs) ==
    IF msgs = <<>> THEN <<>>
    ELSE <<[Head(msgs) EXCEPT !.fresh = FALSE]>> \o StaleSeq(Tail(msgs))
Stale(chan) == [t \in DOMAIN chan |-> StaleSeq(chan[t])]

\* ------------------------------------------------------------------ Init
\* AbsPolicyManager.__init__ and the constructors of the three managers: the
\* state once construction has returned and every trainer holds the initial
\* state of its policies.
Init ==
    /\ kind \in Kinds
    /\ policy2trainer \in (IF kind = "local" THEN {EmptyMap} ELSE Assignments)
    /\ manager_end = (IF kind = "local" THEN <<>>
                      ELSE TrainerKeys(policy2trainer, PolicyOrder, <<>>))
    /\ trainer2policies = [t \in Range(manager_end) |-> PoliciesOf(policy2trainer, t)]
    /\ policy_dict = [p \in Policies |-> 0]
    /\ updated = InitUpdated(Policies)
    /\ version = 0
    /\ exited = FALSE
    /\ pc = "idle"
    /\ waiting = <<>>
    /\ inbox = [t \in Trainers |-> <<>>]
    /\ outbox = [t \in Trainers |-> <<>>]
    /\ replica = [p \in Policies |-> 0]
    /\ running = [t \in Trainers |-> t \in Range(manager_end)]
    /\ op = "init"
    /\ result = "ok"
    /\ pre = NoSnapshot
    /\ reported = {}
    /\ sentTo = {}
    /\ gotFrom = {}
    /\ ret = EmptyMap
    /\ batch = {}
    /\ touched = {}
    /\ resetCalled = FALSE
    /\ nontrainable = {}
    /\ proxy = (IF kind = "multi_node" THEN "open" ELSE "none")
    /\ inits = [t \in Trainers |->
                  IF t \in Range(manager_end)
                  THEN <<InitialPolicyStates(trainer2policies[t], policy_dict)>>
                  ELSE <<>>]
    /\ replied = EmptyMap

\* --------------------------------------------------- AbsPolicyManager
\* Mutant: get_state returns every managed policy, updated or not.
GetStateOfAll(upd, state) == [name \in DOMAIN state |-> state[name]]

\* {name: self.policy_dict[name].get_state() for name in self.updated}
GetStateOf(upd, state) == [name \in upd |-> state[name]]

get_state ==
    /\ pc = "idle"
    /\ ret' = GetStateOf(updated, policy_dict)
    /\ op' = "get_state"
    /\ result' = "ok"
    /\ pre' = NoSnapshot
    /\ reported' = {} /\ sentTo' = {} /\ gotFrom' = {} /\ batch' = {}
    /\ replied' = EmptyMap
    /\ UNCHANGED <<config, manager, exited, callframe, channels, trainers, history, setup>>

\* Mutant: the set is not cleared.
NotCleared(upd) == upd

\* self.updated.clear()
ClearedUpdated(upd) == {}

reset_update_status ==
    /\ pc = "idle"
    /\ updated' = ClearedUpdated(updated)
    /\ op' = "reset_update_status"
    /\ result' = "ok"
    /\ pre' = NoSnapshot
    /\ reported' = {} /\ sentTo' = {} /\ gotFrom' = {} /\ batch' = {}
    /\ ret' = EmptyMap
    /\ touched' = {}
    /\ resetCalled' = TRUE
    /\ replied' = EmptyMap
    /\ UNCHANGED <<config, policy_dict, version, exited, callframe, channels, trainers, setup>>

\* The ghost part of the start of an on_experiences call.
CallStarts(exp_by_policy) ==
    /\ op' = "on_experiences"
    /\ batch' = exp_by_policy
    /\ pre' = Snapshot
    /\ ret' = EmptyMap
    /\ replied' = EmptyMap

\* --------------------------------------------------- LocalPolicyManager
\* if self.policy_dict[name].on_experiences(exp): self.updated.add(name)
LocalUpdated(upd, ch) == upd \cup ch
\* if self.updated: self._logger.info(...)   -- the version is not touched
LocalVersionAfter(upd, ver) == ver

LocalOnExperiences(exp_by_policy, ch) ==
    /\ kind = "local"
    /\ pc = "idle"
    /\ ch \subseteq MayChange(policy_dict, exp_by_policy)
    /\ policy_dict' = Learn(policy_dict, ch)
    /\ updated' = LocalUpdated(updated, ch)
    /\ version' = LocalVersionAfter(updated', version)
    /\ CallStarts(exp_by_policy)
    /\ reported' = ch
    /\ result' = "ok"
    /\ sentTo' = {} /\ gotFrom' = {}
    /\ touched' = touched \cup ch
    /\ UNCHANGED <<config, exited, callframe, channels, trainers, resetCalled, setup>>

\* The same loop over a batch with a key that is not in policy_dict: the entries
\* `before` that key in the dictionary are handled, then self.policy_dict[name]
\* raises KeyError.
LocalKeyError(exp_by_policy, before, ch) ==
    /\ kind = "local"
    /\ pc = "idle"
    /\ ~(exp_by_policy \subseteq DOMAIN policy_dict)
    /\ before \subseteq exp_by_policy \cap DOMAIN policy_dict
    /\ ch \subseteq MayChange(policy_dict, before)
    /\ policy_dict' = Learn(policy_dict, ch)
    /\ updated' = LocalUpdated(updated, ch)
    /\ version' = version
    /\ CallStarts(exp_by_policy)
    /\ reported' = ch
    /\ result' = "KeyError"
    /\ sentTo' = {} /\ gotFrom' = {}
    /\ touched' = touched \cup ch
    /\ UNCHANGED <<config, exited, callframe, channels, trainers, resetCalled, setup>>

\* ----------------------------------------------- merging a trainer's reply
\* Mutant: set_state is not called.
MergedStateKept(state, reply) == state

\* for policy_name, policy_state in result["policy"].items():
\*     self.policy_dict[policy_name].set_state(policy_state)
\*     self.updated.add(policy_name)
MergedState(state, reply) ==
    [p \in DOMAIN state |-> IF p \in DOMAIN reply THEN reply[p] ELSE state[p]]
\* Mutant: the merged names are not recorded.
MergedNotRecorded(upd, reply) == upd
MergedUpdated(upd, reply) == upd \cup DOMAIN reply

\* Mutant: the version is recomputed from the size of updated.
VersionFromUpdated(upd, ver) == Cardinality(upd)

\* if self.updated: self._version += 1
VersionAfter(upd, ver) == IF upd # {} THEN ver + 1 ELSE ver

\* Mutant: the names of the batch are added to updated when the commands are sent.
SentUpdatedEagerly(upd, exp_by_policy) == upd \cup exp_by_policy

\* Building and sending the TRAIN commands adds nothing to updated.
SentUpdated(upd, exp_by_policy) == upd

\* ---------------------------------------------- MultiProcessPolicyManager
\* {name: exp_by_policy[name] for name in self._trainer2policies[trainer_id]}
\* raises KeyError when a policy of the trainer has no entry in the batch.
MPKeyError(owned, exp_by_policy) == ~(Range(owned) \subseteq exp_by_policy)
MPExperiences(owned, exp_by_policy) == Range(owned)

\* The connections the send loop writes to before it ends or raises.
RECURSIVE MPSent(_, _, _)
MPSent(conns, t2p, exp_by_policy) ==
    IF conns = <<>> \/ MPKeyError(t2p[Head(conns)], exp_by_policy) THEN <<>>
    ELSE <<Head(conns)>> \o MPSent(Tail(conns), t2p, exp_by_policy)

\* Mutant: the receive loop is left after its first reply.
MPFirstRecvIsLast(conns) == TRUE

\* for conn in self._manager_end.values(): result = conn.recv()
\* The loop is over when the reply of its last connection has been read.
MPLastRecv(conns) == Len(conns) = 1

\* on_experiences up to its first conn.recv(), or to the KeyError of the send loop.
MPOnExperiences(exp_by_policy) ==
    /\ kind = "multi_process"
    /\ pc = "idle"
    /\ version < MaxVersion
    /\ \A t \in Trainers : Len(inbox[t]) + Len(outbox[t]) < MaxQueue
    /\ LET sent == MPSent(manager_end, trainer2policies, exp_by_policy) IN
       /\ inbox' = [t \in Trainers |->
                      IF t \in Range(sent)
                      THEN Append(Stale(inbox)[t],
                                  Train(MPExperiences(trainer2policies[t], exp_by_policy), TRUE))
                      ELSE Stale(inbox)[t]]
       /\ outbox' = Stale(outbox)
       /\ sentTo' = Range(sent)
       /\ IF Len(sent) = Len(manager_end)
          THEN pc' = "recv" /\ waiting' = manager_end /\ result' = "pending"
          ELSE pc' = "idle" /\ waiting' = <<>> /\ result' = "KeyError"
    /\ updated' = SentUpdated(updated, exp_by_policy)
    /\ CallStarts(exp_by_policy)
    /\ reported' = {}
    /\ gotFrom' = {}
    /\ UNCHANGED <<config, policy_dict, version, exited, trainers, history, setup>>

\* One conn.recv() of the receive loop and the merge of what it returned; after
\* the last one, the version is set and the call returns. A reply without the
\* "policy" field makes result["policy"] raise, which ends the call.
MPRecv ==
    /\ kind = "multi_process"
    /\ pc = "recv"
    /\ LET t == Head(waiting)
           r == Head(outbox[t])
       IN
       /\ outbox[t] # <<>>
       /\ outbox' = [outbox EXCEPT ![t] = Tail(@)]
       /\ gotFrom' = gotFrom \cup {r.from}
       /\ IF r.ok
          THEN /\ policy_dict' = MergedState(policy_dict, r.policy)
               /\ updated' = MergedUpdated(updated, r.policy)
               /\ touched' = touched \cup DOMAIN r.policy
               /\ replied' = Recorded(replied, r.policy)
               /\ IF MPLastRecv(waiting)
                  THEN /\ version' = VersionAfter(updated', version)
                       /\ pc' = "idle" /\ waiting' = <<>> /\ result' = "ok"
                  ELSE /\ version' = version
                       /\ pc' = "recv" /\ waiting' = Tail(waiting) /\ result' = "pending"
          ELSE /\ pc' = "idle" /\ waiting' = <<>> /\ result' = "ReplyError"
               /\ UNCHANGED <<manager, touched, replied>>
    /\ UNCHANGED <<config, exited, inbox, trainers, op, pre, reported, sentTo, ret,
                   batch, resetCalled, setup>>

\* Mutant: only the first connection is told to quit.
QuitFirstOnly(conns) == {Head(conns)}

\* for conn in self._manager_end.values()
QuitTargets(conns) == Range(conns)

\* for conn in self._manager_end.values(): conn.send({"type": "quit"})
MPExit ==
    /\ kind = "multi_process"
    /\ pc = "idle"
    /\ ~exited
    /\ exited' = TRUE
    /\ inbox' = [t \in Trainers |->
                   IF t \in QuitTargets(manager_end) THEN Append(inbox[t], Quit) ELSE inbox[t]]
    /\ op' = "exit"
    /\ result' = "ok"
    /\ pre' = NoSnapshot
    /\ reported' = {} /\ sentTo' = {} /\ gotFrom' = {} /\ batch' = {}
    /\ ret' = EmptyMap
    /\ replied' = EmptyMap
    /\ UNCHANGED <<config, manager, callframe, outbox, trainers, history, setup>>


\* ------------------------------------------------ MultiNodePolicyManager
\* msg_body_by_dest: the trainers of the batch's policies, in the order the
\* batch names them, each with the entries of its policies.
MNDests(p2t, exp_by_policy) ==
    TrainerKeys(p2t, SelectSeq(PolicyOrder, LAMBDA p : p \in exp_by_policy), <<>>)
MNExperiences(p2t, t, exp_by_policy) == {p \in exp_by_policy : p2t[p] = t}

\* Proxy.scatter returns when every peer it sent to has replied.
ScatterDone(dests, replies) == \A t \in Range(dests) : replies[t] # <<>>

\* The replies the merge loop handles before one without the POLICY_STATE field
\* makes reply.body[MsgKey.POLICY_STATE] raise.
RECURSIVE MNWellFormed(_, _)
MNWellFormed(order, replies) ==
    IF order = <<>> \/ ~Head(replies[Head(order)]).ok THEN <<>>
    ELSE <<Head(order)>> \o MNWellFormed(Tail(order), replies)

\* for reply in self._proxy.scatter(...): merge reply.body[MsgKey.POLICY_STATE]
RECURSIVE MNMergedState(_, _, _)
MNMergedState(state, dests, replies) ==
    IF dests = <<>> THEN state
    ELSE MNMergedState(MergedState(state, Head(replies[Head(dests)]).policy),
                       Tail(dests), replies)
RECURSIVE MNMergedUpdated(_, _, _)
MNMergedUpdated(upd, dests, replies) ==
    IF dests = <<>> THEN upd
    ELSE MNMergedUpdated(MergedUpdated(upd, Head(replies[Head(dests)]).policy),
                         Tail(dests), replies)
RECURSIVE MNRecorded(_, _, _)
MNRecorded(old, dests, replies) ==
    IF dests = <<>> THEN old
    ELSE MNRecorded(Recorded(old, Head(replies[Head(dests)]).policy), Tail(dests), replies)

\* The orders in which the list returned by Proxy.scatter can hold the replies.
Orders(dests) ==
    {o \in [1..Len(dests) -> Range(dests)] : Range(o) = Range(dests)}

\* self.policy2trainer[policy_name] raises KeyError for a key of the batch that
\* the table does not hold.
MNKeyError(p2t, exp_by_policy) == ~(exp_by_policy \subseteq DOMAIN p2t)

\* on_experiences up to the point where Proxy.scatter has sent its messages, or
\* to the KeyError raised while the batch is partitioned.
MNOnExperiences(exp_by_policy) ==
    /\ kind = "multi_node"
    /\ pc = "idle"
    /\ ~exited
    /\ version < MaxVersion
    /\ outbox' = Stale(outbox)
    /\ IF MNKeyError(policy2trainer, exp_by_policy)
       THEN /\ inbox' = Stale(inbox)
            /\ sentTo' = {}
            /\ pc' = "idle" /\ waiting' = <<>> /\ result' = "KeyError"
       ELSE LET dests == MNDests(policy2trainer, exp_by_policy) IN
            /\ inbox' = [t \in Trainers |->
                           IF t \in Range(dests)
                           THEN Append(Stale(inbox)[t],
                                       Train(MNExperiences(policy2trainer, t, exp_by_policy), TRUE))
                           ELSE Stale(inbox)[t]]
            /\ sentTo' = Range(dests)
            /\ pc' = "scatter" /\ waiting' = dests /\ result' = "pending"
    /\ updated' = SentUpdated(updated, exp_by_policy)
    /\ CallStarts(exp_by_policy)
    /\ reported' = {}
    /\ gotFrom' = {}
    /\ UNCHANGED <<config, policy_dict, version, exited, trainers, history, setup>>

\* Proxy.scatter returns the replies, in the order `order`; they are merged, the
\* version is set and the call returns, unless a reply cannot be merged.
MNScatterReturn(order) ==
    /\ kind = "multi_node"
    /\ pc = "scatter"
    /\ ScatterDone(waiting, outbox)
    /\ order \in Orders(waiting)
    /\ LET good == MNWellFormed(order, outbox) IN
       /\ policy_dict' = MNMergedState(policy_dict, good, outbox)
       /\ updated' = MNMergedUpdated(updated, good, outbox)
       /\ touched' = MNMergedUpdated(touched, good, outbox)
       /\ replied' = MNRecorded(replied, good, outbox)
       /\ IF Len(good) = Len(order)
          THEN version' = VersionAfter(updated', version) /\ result' = "ok"
          ELSE version' = version /\ result' = "ReplyError"
    /\ outbox' = [t \in Trainers |-> IF t \in Range(waiting) THEN Tail(outbox[t]) ELSE outbox[t]]
    /\ gotFrom' = {Head(outbox[t]).from : t \in Range(waiting)}
    /\ pc' = "idle" /\ waiting' = <<>>
    /\ UNCHANGED <<config, exited, inbox, trainers, op, pre, reported, sentTo, ret,
                   batch, resetCalled, setup>>

\* self._proxy.ibroadcast("trainer", MsgTag.EXIT, ...); self._proxy.close()
MNExit ==
    /\ kind = "multi_node"
    /\ pc = "idle"
    /\ ~exited
    /\ exited' = TRUE
    /\ inbox' = [t \in Trainers |->
                   IF t \in Range(manager_end) THEN Append(inbox[t], Quit) ELSE inbox[t]]
    /\ op' = "exit"
    /\ result' = "ok"
    /\ pre' = NoSnapshot
    /\ reported' = {} /\ sentTo' = {} /\ gotFrom' = {} /\ batch' = {}
    /\ ret' = EmptyMap
    /\ replied' = EmptyMap
    /\ proxy' = "closed"
    /\ UNCHANGED <<config, manager, callframe, outbox, trainers, history, nontrainable, inits>>

\* ------------------------------------------------------- trainer workers
\* On TRAIN the worker applies the experiences to its policies and replies with
\* the state of those that changed.
TrainReply(t, state, ch, isFresh) ==
    [from |-> t, policy |-> [p \in ch |-> state[p]], fresh |-> isFresh, ok |-> TRUE]

TrainerTrain(t, ch) ==
    /\ running[t]
    /\ inbox[t] # <<>>
    /\ LET msg == Head(inbox[t]) IN
       /\ msg.type = "train"
       /\ ch \subseteq MayChange(replica, msg.experiences)
       /\ replica' = Learn(replica, ch)
       /\ outbox' = [outbox EXCEPT ![t] = Append(@, TrainReply(t, replica', ch, msg.fresh))]
       /\ reported' = IF msg.fresh /\ pc # "idle" THEN reported \cup ch ELSE reported
    /\ inbox' = [inbox EXCEPT ![t] = Tail(@)]
    /\ UNCHANGED <<config, manager, exited, callframe, running, op, result, pre,
                   sentTo, gotFrom, ret, batch, history, setup, replied>>

\* On QUIT / EXIT the worker leaves its loop without a reply.
TrainerQuit(t) ==
    /\ running[t]
    /\ inbox[t] # <<>>
    /\ Head(inbox[t]).type = "quit"
    /\ running' = [running EXCEPT ![t] = FALSE]
    /\ inbox' = [inbox EXCEPT ![t] = Tail(@)]
    /\ UNCHANGED <<config, manager, exited, callframe, outbox, replica, op, result,
                   pre, reported, sentTo, gotFrom, ret, batch, history, setup, replied>>

\* ----------------------------------------------------------- trainer faults
\* A trainer crashes or hangs: it reads no further command and sends no reply.
TrainerFails(t) ==
    /\ running[t]
    /\ running' = [running EXCEPT ![t] = FALSE]
    /\ UNCHANGED <<config, manager, exited, callframe, channels, replica, op, result,
                   pre, reported, sentTo, gotFrom, ret, batch, history, setup, replied>>

\* A reply that lacks the "policy" (POLICY_STATE) field.
MalformedReply(t, isFresh) ==
    [from |-> t, policy |-> EmptyMap, fresh |-> isFresh, ok |-> FALSE]

\* A trainer answers a TRAIN command with a malformed reply.
TrainerRepliesMalformed(t) ==
    /\ running[t]
    /\ inbox[t] # <<>>
    /\ Head(inbox[t]).type = "train"
    /\ outbox' = [outbox EXCEPT ![t] = Append(@, MalformedReply(t, Head(inbox[t]).fresh))]
    /\ inbox' = [inbox EXCEPT ![t] = Tail(@)]
    /\ UNCHANGED <<config, manager, exited, callframe, trainers, op, result, pre,
                   reported, sentTo, gotFrom, ret, batch, history, setup, replied>>

\* ------------------------------------------------------------ construction
\* The state before a constructor is called on a `policies` list and a table.
InitCtor ==
    /\ kind \in Kinds
    /\ nontrainable \in NonTrainables
    /\ policy2trainer \in (IF kind = "local" THEN {EmptyMap} ELSE Tables)
    /\ policy_dict \in InitialStates
    /\ manager_end = <<>>
    /\ trainer2policies = [t \in {} |-> <<>>]
    /\ updated = {}
    /\ version = 0
    /\ exited = FALSE
    /\ pc = "new"
    /\ waiting = <<>>
    /\ inbox = [t \in Trainers |-> <<>>]
    /\ outbox = [t \in Trainers |-> <<>>]
    /\ replica = [p \in Policies |-> NoState]
    /\ running = [t \in Trainers |-> FALSE]
    /\ op = "init"
    /\ result = "pending"
    /\ pre = NoSnapshot
    /\ reported = {}
    /\ sentTo = {}
    /\ gotFrom = {}
    /\ ret = EmptyMap
    /\ batch = {}
    /\ touched = {}
    /\ resetCalled = FALSE
    /\ proxy = "none"
    /\ inits = [t \in Trainers |-> <<>>]
    /\ replied = EmptyMap

\* Mutant: the policies are not checked.
NotChecked(nt) == TRUE

\* for policy in policies: if not isinstance(policy, AbsCorePolicy): raise ValueError
AllTrainable(nt) == nt = {}

\* The trainers the loop over self._trainer2policies.items() has served before
\* self.policy_dict[name] raises KeyError for a name that is not managed.
RECURSIVE BeforeKeyError(_, _, _)
BeforeKeyError(conns, t2p, managed) ==
    IF conns = <<>> \/ ~(Range(t2p[Head(conns)]) \subseteq managed) THEN <<>>
    ELSE <<Head(conns)>> \o BeforeKeyError(Tail(conns), t2p, managed)

\* manager_end, trainer_end = Pipe() comes first in the body of the loop: the
\* trainer at which the loop raises has its pipe already.
Piped(conns, started) ==
    SubSeq(conns, 1, IF Len(started) < Len(conns) THEN Len(started) + 1 ELSE Len(conns))

\* What is left alone by every constructor.
ctorframe == <<kind, policy_dict, version, policy2trainer, exited, waiting, outbox, op,
               pre, reported, sentTo, gotFrom, ret, batch, history, nontrainable, replied>>

\* LocalPolicyManager.__init__
LocalInit ==
    /\ kind = "local"
    /\ pc = "new"
    /\ IF AllTrainable(nontrainable)
       THEN updated' = InitUpdated(DOMAIN policy_dict) /\ pc' = "idle" /\ result' = "ok"
       ELSE updated' = updated /\ pc' = "failed" /\ result' = "ValueError"
    /\ UNCHANGED <<ctorframe, trainer2policies, manager_end, inbox, trainers, proxy, inits>>

\* MultiProcessPolicyManager.__init__: a worker is created from the policy
\* states it is handed.
MPInit ==
    /\ kind = "multi_process"
    /\ pc = "new"
    /\ IF AllTrainable(nontrainable)
       THEN LET conns == TrainerKeys(policy2trainer, TableKeys(policy2trainer), <<>>)
                t2p == [t \in Range(conns) |-> PoliciesOf(policy2trainer, t)]
                started == BeforeKeyError(conns, t2p, DOMAIN policy_dict)
                handed == [t \in Range(started) |-> InitialPolicyStates(t2p[t], policy_dict)]
            IN
            /\ updated' = InitUpdated(DOMAIN policy_dict)
            /\ trainer2policies' = t2p
            /\ manager_end' = Piped(conns, started)
            /\ running' = [t \in Trainers |-> t \in Range(started)]
            /\ inits' = [t \in Trainers |-> IF t \in Range(started) THEN <<handed[t]>> ELSE <<>>]
            /\ replica' = [p \in Policies |->
                             IF \E t \in Range(started) : p \in DOMAIN handed[t]
                             THEN policy_dict[p] ELSE replica[p]]
            /\ IF Len(started) = Len(conns)
               THEN pc' = "idle" /\ result' = "ok"
               ELSE pc' = "failed" /\ result' = "KeyError"
       ELSE /\ pc' = "failed" /\ result' = "ValueError"
            /\ UNCHANGED <<updated, trainer2policies, manager_end, trainers, inits>>
    /\ UNCHANGED <<ctorframe, inbox, proxy>>

\* MultiNodePolicyManager.__init__: the proxy is created, then every trainer is
\* sent the states of its policies.
MNInit ==
    /\ kind = "multi_node"
    /\ pc = "new"
    /\ IF AllTrainable(nontrainable)
       THEN LET conns == TrainerKeys(policy2trainer, TableKeys(policy2trainer), <<>>)
                t2p == [t \in Range(conns) |-> PoliciesOf(policy2trainer, t)]
                sent == BeforeKeyError(conns, t2p, DOMAIN policy_dict)
                handed == [t \in Range(sent) |-> InitialPolicyStates(t2p[t], policy_dict)]
            IN
            /\ updated' = InitUpdated(DOMAIN policy_dict)
            /\ trainer2policies' = t2p
            /\ manager_end' = conns
            /\ proxy' = "open"
            /\ running' = [t \in Trainers |-> t \in Range(conns)]
            /\ inits' = [t \in Trainers |-> IF t \in Range(sent) THEN <<handed[t]>> ELSE <<>>]
            /\ inbox' = [t \in Trainers |->
                           IF t \in Range(sent) THEN <<InitPolicyState(handed[t])>> ELSE <<>>]
            /\ IF Len(sent) = Len(conns)
               THEN pc' = "idle" /\ result' = "ok"
               ELSE pc' = "failed" /\ result' = "KeyError"
       ELSE /\ pc' = "failed" /\ result' = "ValueError"
            /\ UNCHANGED <<updated, trainer2policies, manager_end, proxy, running, inits, inbox>>
    /\ UNCHANGED <<ctorframe, replica>>

\* On INIT_POLICY_STATE the trainer node sets its policies to the states received.
TrainerInit(t) ==
    /\ running[t]
    /\ inbox[t] # <<>>
    /\ LET msg == Head(inbox[t]) IN
       /\ msg.type = "init"
       /\ replica' = [p \in Policies |->
                        IF p \in DOMAIN msg.policy_state THEN msg.policy_state[p]
                        ELSE replica[p]]
    /\ inbox' = [inbox EXCEPT ![t] = Tail(@)]
    /\ UNCHANGED <<config, manager, exited, callframe, outbox, running, op, result,
                   pre, reported, sentTo, gotFrom, ret, batch, history, setup, replied>>

\* ------------------------------------------------------------------ Next
Next ==
    \/ get_state
    \/ reset_update_status
    \/ \E b \in SUBSET Policies : \E ch \in SUBSET b : LocalOnExperiences(b, ch)
    \/ \E b \in SUBSET Policies : MPOnExperiences(b)
    \/ MPRecv
    \/ MPExit
    \/ \E b \in SUBSET Policies : MNOnExperiences(b)
    \/ \E order \in Orders(waiting) : MNScatterReturn(order)
    \/ MNExit
    \/ \E t \in Trainers : \E ch \in SUBSET Policies : TrainerTrain(t, ch)
    \/ \E t \in Trainers : TrainerQuit(t)

Spec == Init /\ [][Next]_vars

\* A step of trainer t, and of any trainer.
TrainerStepOf(t) == TrainerQuit(t) \/ \E ch \in SUBSET Policies : TrainerTrain(t, ch)
TrainerStep == \E t \in Trainers : TrainerStepOf(t)

\* The coordinator step that reads a reply and merges it.
MergeStep == MPRecv \/ \E order \in Orders(waiting) : MNScatterReturn(order)

\* Every trainer is a process of its own that blocks only in recv(): one that
\* has a command to read goes on to read it.
FairSpec == Spec /\ \A t \in Trainers : WF_vars(TrainerStepOf(t))

\* The same managers, called also with batches that hold an unmanaged key.
NextKeys ==
    \/ Next
    \/ \E b \in KeyBatches : \E before \in SUBSET b : \E ch \in SUBSET before :
          LocalKeyError(b, before, ch)
    \/ \E b \in KeyBatches : MPOnExperiences(b)
    \/ \E b \in KeyBatches : MNOnExperiences(b)

SpecKeys == Init /\ [][NextKeys]_vars

\* The managers with trainers that can fail.
NextFault ==
    \/ Next
    \/ \E t \in Trainers : TrainerFails(t)
    \/ \E t \in Trainers : TrainerRepliesMalformed(t)

SpecFault == Init /\ [][NextFault]_vars

\* The managers with trainers that can crash or hang, every trainer that runs
\* reading the commands it is sent, and the coordinator, blocked in recv() or in
\* scatter, going on once the reply it waits for is there.
NextCrash ==
    \/ Next
    \/ \E t \in Trainers : TrainerFails(t)

FairCrashSpec ==
    /\ Init /\ [][NextCrash]_vars
    /\ \A t \in Trainers : WF_vars(TrainerStepOf(t))
    /\ WF_vars(MergeStep)

\* The managers from before their construction on.
NextCtor ==
    \/ LocalInit
    \/ MPInit
    \/ MNInit
    \/ \E t \in Trainers : TrainerInit(t)
    \/ Next

SpecCtor == InitCtor /\ [][NextCtor]_vars


\* ================================================================ claims
\* A call of on_experiences that has returned normally.
Returned == op = "on_experiences" /\ pc = "idle" /\ result = "ok"

\* C1: in each manager, an on_experiences call in which at least one policy of
\* the batch reports a change increases version by exactly 1.
C1_ChangeBumpsVersionByOne ==
    (Returned /\ reported # {}) => version = pre.version + 1

\* C2: in each manager, an on_experiences call (with a non-empty batch) in which
\* no policy of the batch reports a change leaves version unchanged and adds no
\* name to updated.
C2_NoChangeNoBump ==
    (Returned /\ batch # {} /\ reported = {}) =>
        (version = pre.version /\ updated = pre.updated)

\* C3: in each manager, on_experiences with an empty batch completes normally
\* and leaves version and updated as they were.
C3_EmptyBatchIsNoOp ==
    (op = "on_experiences" /\ pc = "idle" /\ batch = {}) =>
        (result = "ok" /\ version = pre.version /\ updated = pre.updated)

C5_StateChangeBumpsVersion ==
    (op = "on_experiences" /\ pc = "idle" /\ policy_dict # pre.state) =>
        version > pre.version

\* C6: version starts at 0 and never decreases; no trainer step changes it; it
\* changes only in the step of on_experiences that ends the call, after the
\* replies of all addressed trainers have been read and merged.
C6_VersionMonotone ==
    /\ version = 0
    /\ [][/\ version' >= version
          /\ version' # version =>
                /\ MPRecv \/ \E order \in Orders(waiting) : MNScatterReturn(order)
                /\ pc' = "idle"
                /\ gotFrom' = sentTo]_vars

C6_Witness == version = 2 /\ Cardinality(sentTo) = 2 /\ resetCalled

\* C7: get_state returns a mapping whose keys are exactly updated, each mapped
\* to the policy's current state; right after reset_update_status it returns
\* the empty mapping.
C7_GetStateIsUpdatedStates ==
    [][get_state =>
          /\ DOMAIN ret' = updated
          /\ \A name \in updated : ret'[name] = policy_dict[name]
          /\ (op = "reset_update_status" => ret' = EmptyMap)]_vars

C7_Witness ==
    /\ op = "get_state"
    /\ DOMAIN ret \notin {{}, Policies}
    /\ \E name \in DOMAIN ret : ret[name] > 0

\* C8: reset_update_status empties updated and leaves version, the keys of
\* policy_dict, every policy's state and the assignment unchanged.
C8_ResetFrame ==
    [][reset_update_status =>
          /\ updated' = {}
          /\ version' = version
          /\ DOMAIN policy_dict' = DOMAIN policy_dict
          /\ policy_dict' = policy_dict
          /\ policy2trainer' = policy2trainer
          /\ trainer2policies' = trainer2policies]_vars

C8_Witness ==
    /\ op = "reset_update_status"
    /\ updated = {}
    /\ version > 0
    /\ \E p \in Policies : policy_dict[p] > 0

\* C9: in the Multi-Process and Multi-Node managers every non-empty batch of
\* managed policies is accepted, a TRAIN command goes only to the trainers that
\* own a policy of the batch, and it carries exactly the batch entries of the
\* policies that trainer owns.
C9_TrainOnlyToOwnersOfBatch ==
    [][\A b \in (SUBSET Policies) \ {{}} :
          (MPOnExperiences(b) \/ MNOnExperiences(b)) =>
              /\ result' # "KeyError"
              /\ \A t \in Trainers :
                    LET entries == {p \in b : policy2trainer[p] = t} IN
                    inbox'[t] = IF entries # {}
                                THEN Append(Stale(inbox)[t], Train(entries, TRUE))
                                ELSE Stale(inbox)[t]]_vars

C18_OwnThenMerge ==
    [][kind # "local" =>
          /\ (policy_dict' # policy_dict \/ ~(updated' \subseteq updated)) =>
                /\ MergeStep
                /\ \E t \in Trainers : outbox[t] # <<>> /\ outbox'[t] = Tail(outbox[t])
          /\ updated' # updated => (MergeStep \/ reset_update_status)
          /\ TrainerStep => UNCHANGED <<policy_dict, updated, version>>
          /\ replica' # replica =>
                \E t \in Trainers :
                    /\ inbox[t] # <<>> /\ Head(inbox[t]).type = "train"
                    /\ inbox'[t] = Tail(inbox[t])
                    /\ \A p \in Policies :
                          replica'[p] # replica[p] => p \in Head(inbox[t]).experiences]_vars

C18_Witness ==
    /\ kind = "multi_process"
    /\ pc = "recv"
    /\ gotFrom # {}
    /\ \E p \in Policies : replica[p] # policy_dict[p]
    /\ \E p \in Policies : policy_dict[p] # pre.state[p]

\* C11: in each manager, an on_experiences call whose batch holds a key that is
\* no managed policy id ends with an error, and has then changed no policy
\* state, sent no command, and left updated and version as they were.
C11_UnmanagedKeyFailsCleanly ==
    (op = "on_experiences" /\ ~(batch \subseteq Policies)) =>
        /\ pc = "idle"
        /\ result = "KeyError"
        /\ policy_dict = pre.state
        /\ updated = pre.updated
        /\ version = pre.version
        /\ sentTo = {}

\* Construction has returned normally.
Constructed == pc \notin {"new", "failed"}
\* No trainer process was started and no initial state was handed out.
NoTrainerStarted ==
    \A t \in Trainers : ~running[t] /\ inits[t] = <<>> /\ inbox[t] = <<>>

\* C12: constructing any manager with a policy list that holds a policy that is
\* no AbsCorePolicy fails with an error, and no trainer process was started, no
\* pipe opened and no proxy created by then.
C12_NonTrainableFailsFirst ==
    nontrainable # {} =>
        /\ pc \in {"new", "failed"}
        /\ pc = "failed" => result = "ValueError"
        /\ NoTrainerStarted
        /\ manager_end = <<>>
        /\ proxy = "none"

C12_Witness ==
    /\ pc = "failed"
    /\ nontrainable # {}
    /\ kind = "multi_node"
    /\ ~(DOMAIN policy2trainer \subseteq Policies)

\* C13: constructing a Multi-Process or Multi-Node manager (from trainable
\* policies) with a table that holds an unmanaged policy id fails, with no
\* trainer process started, no INIT_POLICY_STATE message sent and no proxy
\* created, wherever in the table the entry is.
C13_UnmanagedEntryFailsFirst ==
    (kind # "local" /\ nontrainable = {} /\ pc # "new"
        /\ ~(DOMAIN policy2trainer \subseteq Policies)) =>
        /\ pc = "failed"
        /\ kind = "multi_process" => \A t \in Trainers : ~running[t]
        /\ \A t \in Trainers : inits[t] = <<>> /\ inbox[t] = <<>>
        /\ proxy = "none"

\* C19: once a Multi-Process or Multi-Node manager is constructed, every key of
\* policy_dict is a key of policy2trainer, the lists of trainer2policies are
\* pairwise disjoint and cover the managed policy ids, a policy is in a trainer's
\* list exactly when policy2trainer maps it to that trainer, and no later
\* operation changes the assignment.
C19_ExactlyOneOwner ==
    /\ [](Constructed /\ kind # "local" =>
            /\ DOMAIN policy_dict \subseteq DOMAIN policy2trainer
            /\ \A t1, t2 \in DOMAIN trainer2policies :
                  t1 # t2 => Range(trainer2policies[t1]) \cap Range(trainer2policies[t2]) = {}
            /\ UNION {Range(trainer2policies[t]) : t \in DOMAIN trainer2policies}
                  = DOMAIN policy_dict
            /\ \A t \in DOMAIN trainer2policies : \A p \in DOMAIN policy2trainer :
                  p \in Range(trainer2policies[t]) <=> policy2trainer[p] = t)
    /\ [][Constructed => UNCHANGED <<policy2trainer, trainer2policies>>]_vars

\* C20: at start-up every trainer of a constructed Multi-Process or Multi-Node
\* manager is handed initial policy states exactly once, for exactly the
\* policies it owns and with the states the coordinator's policies had at
\* construction; in Multi-Node as one INIT_POLICY_STATE message that is ahead of
\* every TRAIN command, in Multi-Process when the worker is spawned; and a
\* trainer trains only policies it has been given a state for.
C20_InitialStateHandedOnce ==
    /\ [](Constructed /\ kind # "local" =>
            \A t \in Trainers :
                /\ Len(inits[t]) = (IF t \in Range(manager_end) THEN 1 ELSE 0)
                /\ t \in Range(manager_end) =>
                      DOMAIN inits[t][1] = Range(trainer2policies[t])
                /\ \A i \in 1..Len(inbox[t]) :
                      inbox[t][i].type = "init" =>
                          (i = 1 /\ inbox[t][i].policy_state = inits[t][1]))
    /\ [][(MPInit \/ MNInit) /\ Constructed' =>
             \A t \in Range(manager_end') :
                 /\ \A p \in DOMAIN inits'[t][1] : inits'[t][1][p] = policy_dict[p]
                 /\ IF kind = "multi_node"
                    THEN inbox'[t] = <<InitPolicyState(inits'[t][1])>>
                    ELSE \A p \in DOMAIN inits'[t][1] : replica'[p] = policy_dict[p]]_vars
    /\ [][\A t \in Trainers : \A ch \in SUBSET Policies :
             TrainerTrain(t, ch) =>
                 \A p \in Head(inbox[t]).experiences : replica[p] # NoState]_vars

C20_Witness ==
    /\ kind = "multi_node"
    /\ pc = "scatter"
    /\ policy_dict["A"] = 1
    /\ \E t \in Trainers :
          /\ Len(inbox[t]) = 2
          /\ inbox[t][1].type = "init" /\ inbox[t][1].policy_state["A"] = 1
          /\ inbox[t][2].type = "train"

\* C15: Multi-Process exit sends one QUIT command to every trainer worker, reads
\* no reply and returns without waiting for a worker to stop; a worker that
\* reads QUIT leaves its loop without a reply; and after exit every trainer
\* process eventually stops, and stays stopped.
C15_ExitStopsWorkers ==
    /\ [][MPExit =>
             /\ \A t \in Trainers :
                   inbox'[t] = IF t \in Range(manager_end)
                               THEN Append(inbox[t], Quit) ELSE inbox[t]
             /\ UNCHANGED <<outbox, running>>
             /\ pc' = "idle"]_vars
    /\ [][\A t \in Trainers :
             /\ TrainerQuit(t) => (outbox' = outbox /\ ~running'[t])
             /\ ~running[t] => ~running'[t]]_vars
    /\ (kind = "multi_process" /\ exited) ~> (\A t \in Trainers : ~running[t])

C15_Witness ==
    /\ kind = "multi_process"
    /\ exited
    /\ Cardinality(Range(manager_end)) = 2
    /\ \A t \in Trainers : ~running[t]
    /\ \E t \in Trainers : outbox[t] # <<>>

\* The trainers whose reply a merge step takes from the channels.
Received == IF kind = "multi_process" THEN {Head(waiting)} ELSE Range(waiting)

\* C14: when an on_experiences call of the Multi-Process or Multi-Node manager
\* fails because of a reply, the policies of no merged reply keep their state
\* and their membership in updated, every well-formed reply that was received
\* is merged, and the call ends with an error; a call that returns normally
\* after a policy's state changed has incremented version.
C14_FailureMergesWellFormed ==
    /\ []((op = "on_experiences" /\ kind # "local" /\ pc = "idle"
              /\ result = "ReplyError") =>
             \A p \in Policies \ DOMAIN replied :
                 policy_dict[p] = pre.state[p] /\ (p \in updated <=> p \in pre.updated))
    /\ []((Returned /\ kind # "local" /\ policy_dict # pre.state) =>
             version = pre.version + 1)
    /\ [][MergeStep =>
             /\ (\E t \in Received : ~Head(outbox[t]).ok) => result' = "ReplyError"
             /\ \A t \in Received :
                   Head(outbox[t]).ok =>
                       \A p \in DOMAIN Head(outbox[t]).policy :
                           /\ policy_dict'[p] = Head(outbox[t]).policy[p]
                           /\ p \in updated']_vars

\* C16: a Multi-Node on_experiences call addressed to two trainer peers, of
\* which one has replied, is never stuck: it can return, or a trainer it waits
\* for can still take a step.
C16_ScatterNeverStuck ==
    (/\ kind = "multi_node"
     /\ pc = "scatter"
     /\ Cardinality(Range(waiting)) = 2
     /\ \E t \in Range(waiting) : outbox[t] # <<>>) =>
        \/ ENABLED (\E order \in Orders(waiting) : MNScatterReturn(order))
        \/ \E t \in Range(waiting) : running[t] /\ inbox[t] # <<>>

\* An on_experiences call of the Multi-Process or Multi-Node manager is waiting
\* for replies.
InCall == kind # "local" /\ pc \in {"recv", "scatter"}
\* Trainer t has stopped with the TRAIN command of the last call unread: it
\* never replies to it.
NeverReplies(t) ==
    /\ ~running[t]
    /\ \E i \in 1..Len(inbox[t]) : inbox[t][i].type = "train" /\ inbox[t][i].fresh

\* C21: an accepted on_experiences call of a Multi-Process or Multi-Node manager
\* (that was not told to exit) eventually returns unless a trainer has stopped;
\* and no call has returned when a trainer it addressed never replies to it.
C21_ReturnsIffAllReply ==
    /\ (InCall /\ ~exited) ~>
            (pc = "idle" \/ \E t \in Range(manager_end) : ~running[t])
    /\ []((Returned /\ kind # "local") => \A t \in sentTo : ~NeverReplies(t))

\* A TRAIN command in a channel to a trainer, or a reply in a channel from one.
PendingTrain(t) == \E i \in 1..Len(inbox[t]) : inbox[t][i].type = "train"
PendingReply(t) == outbox[t] # <<>>

\* C22: in the Multi-Process manager, every reply an on_experiences call reads
\* and merges answers the TRAIN command that call sent to that trainer, and
\* when a call starts no channel holds a reply or an unanswered TRAIN command.
C22_ReplyAnswersThisCall ==
    /\ [][MPRecv => Head(outbox[Head(waiting)]).fresh]_vars
    /\ [][\A b \in SUBSET Policies :
             MPOnExperiences(b) =>
                 \A t \in Trainers : ~PendingTrain(t) /\ ~PendingReply(t)]_vars

====
